---- MODULE Spec2Model ----
(***************************************************************************)
(* A model of aiassisted's python runtime: the FILES.txt manifest          *)
(* (manifest.py), the installer's install and update protocols             *)
(* (installer.py), the fetches they make (downloader.py) and the commands  *)
(* that drive them (cli.py).                                               *)
(*                                                                         *)
(* Text is a sequence of one-character strings, "\n" included, so that     *)
(* writing FILES.txt and reading it back are two different computations.   *)
(* A file that may be missing is an optional value: None is <<>> and       *)
(* Some(v) is <<v>>.  A python dict is a sequence of [path, hash] records  *)
(* with distinct paths, in insertion order.                                *)
(*                                                                         *)
(* A file operation is atomic at the granularity of one file: it either    *)
(* happens, or raises and leaves its destination as it was.                *)
(***************************************************************************)
EXTENDS Integers, Sequences, FiniteSets, TLC

\* ------------------------------------------------------------------ values

None == <<>>
Some(v) == <<v>>

NL == "\n"
Whitespace == {" ", NL}

\* The payload paths of the model and the two file contents a fetch can return.
PathA == <<"a">>
PathB == <<"b">>
Paths == {PathA, PathB}
Contents == {"x", "y"}
NoFile == "NoFile"

\* At most this many commands run one after the other.
MaxOps == 2
\* At most this many new commits reach the remote while the model runs.
MaxRemoteChanges == 1

\* ------------------------------------------------------------ manifest.py

\* hashlib.sha256 of a file's bytes, as a hex string: injective on Contents.
calculate_sha256(content) ==
  IF content = "x" THEN <<"1">> ELSE <<"2">>

Digests == {calculate_sha256(c) : c \in Contents}

\* str.strip(): drop leading and trailing whitespace.
RECURSIVE LStrip(_)
LStrip(s) ==
  IF s # <<>> /\ Head(s) \in Whitespace THEN LStrip(Tail(s)) ELSE s

RECURSIVE RStrip(_)
RStrip(s) ==
  IF s # <<>> /\ s[Len(s)] \in Whitespace
  THEN RStrip(SubSeq(s, 1, Len(s) - 1))
  ELSE s

Strip(s) == RStrip(LStrip(s))

\* The index of the first occurrence of character c in s, 0 when there is none.
RECURSIVE FindFrom(_, _, _)
FindFrom(s, c, i) ==
  IF i > Len(s) THEN 0
  ELSE IF s[i] = c THEN i
  ELSE FindFrom(s, c, i + 1)

Find(s, c) == FindFrom(s, c, 1)

\* str.split("\n"): the pieces between newlines, a trailing empty piece included.
RECURSIVE SplitNewline(_)
SplitNewline(text) ==
  LET i == Find(text, NL) IN
  IF i = 0 THEN <<text>>
  ELSE <<SubSeq(text, 1, i - 1)>> \o SplitNewline(SubSeq(text, i + 1, Len(text)))

\* Iterating an open text file: each line with its newline, no empty last line.
RECURSIVE FileLines(_)
FileLines(text) ==
  LET i == Find(text, NL) IN
  IF text = <<>> THEN <<>>
  ELSE IF i = 0 THEN <<text>>
  ELSE <<SubSeq(text, 1, i)>> \o FileLines(SubSeq(text, i + 1, Len(text)))

\* dict.get(key): Some(value), or None.
RECURSIVE DictGet(_, _)
DictGet(files, path) ==
  IF files = <<>> THEN None
  ELSE IF Head(files).path = path THEN Some(Head(files).hash)
  ELSE DictGet(Tail(files), path)

\* dict[key] = value: a known key keeps its place, a new key goes last.
DictSet(files, path, hash) ==
  IF DictGet(files, path) = None
  THEN Append(files, [path |-> path, hash |-> hash])
  ELSE [i \in 1..Len(files) |->
          IF files[i].path = path THEN [path |-> path, hash |-> hash] ELSE files[i]]

\* The body of the parsing loop for one line.
ParseLineKeepsComments(files, rawline) ==
  LET line == Strip(rawline)
      i == Find(line, ":")
  IN IF line = <<>> THEN files
     ELSE IF i = 0 THEN files
     ELSE DictSet(files, SubSeq(line, 1, i - 1), SubSeq(line, i + 1, Len(line)))

ParseLine(files, rawline) ==
  LET line == Strip(rawline)
      i == Find(line, ":")
  IN IF line = <<>> \/ Head(line) = "#" THEN files
     ELSE IF i = 0 THEN files
     ELSE DictSet(files, SubSeq(line, 1, i - 1), SubSeq(line, i + 1, Len(line)))

RECURSIVE ParseLines(_, _)
ParseLines(files, lines) ==
  IF lines = <<>> THEN files
  ELSE ParseLines(ParseLine(files, Head(lines)), Tail(lines))

\* Manifest.load_from_content on a manifest whose files are `files`.
load_from_content(files, content) == ParseLines(files, SplitNewline(content))

\* Manifest.load_from_file: [ok, files]; a missing file leaves files alone.
load_from_file(files, file) ==
  IF file = None THEN [ok |-> FALSE, files |-> files]
  ELSE [ok |-> TRUE, files |-> ParseLines(files, FileLines(file[1]))]

\* Manifest.compare_with: self is `local`, other is `remote`.
RECURSIVE compare_loop(_, _, _, _)
compare_loop(local, remote, changed, unchanged) ==
  IF remote = <<>> THEN [changed |-> changed, unchanged |-> unchanged]
  ELSE LET filepath == Head(remote).path
           remote_hash == Head(remote).hash
           local_hash == DictGet(local, filepath)
       IN IF local_hash = None \/ local_hash # Some(remote_hash)
          THEN compare_loop(local, Tail(remote), Append(changed, filepath), unchanged)
          ELSE compare_loop(local, Tail(remote), changed, Append(unchanged, filepath))

\* A diff that returns its two lists sorted by path, not in reading order.
SortedPaths(seq) ==
  SelectSeq(<<PathA, PathB>>, LAMBDA p : \E i \in 1..Len(seq) : seq[i] = p)

compare_with_sorted(local, remote) ==
  LET r == compare_loop(local, remote, <<>>, <<>>)
  IN [changed |-> SortedPaths(r.changed), unchanged |-> SortedPaths(r.unchanged)]

compare_with_no_absent(local, remote) ==
  LET r == compare_loop(local, remote, <<>>, <<>>)
      miss(p) == DictGet(local, p) = None
  IN [changed |-> SelectSeq(r.changed, LAMBDA p : ~miss(p)),
      unchanged |-> r.unchanged \o SelectSeq(r.changed, miss)]

compare_with(local, remote) == compare_loop(local, remote, <<>>, <<>>)


\* Manifest.verify_checksum on a file that can be read (NoFile: it is missing).
verify_checksum_any(file, expected_hash) == file # NoFile

verify_checksum(file, expected_hash) ==
  IF file = NoFile THEN FALSE
  ELSE calculate_sha256(file) = expected_hash

\* ----------------------------------------------------------- installer.py

\* FILES.txt as apply_selective_update writes it: one "path:hash\n" per entry.
RECURSIVE SerializeNoNewline(_)
SerializeNoNewline(files) ==
  IF files = <<>> THEN <<>>
  ELSE Head(files).path \o <<":">> \o Head(files).hash
       \o SerializeNoNewline(Tail(files))

RECURSIVE Serialize(_)
Serialize(files) ==
  IF files = <<>> THEN <<>>
  ELSE Head(files).path \o <<":">> \o Head(files).hash \o <<NL>>
       \o Serialize(Tail(files))

\* The .version file of a commit: KEY=VALUE lines, COMMIT_HASH among them.
Marker(commit) == <<[key |-> "COMMIT_HASH", value |-> ToString(commit)]>>
\* A .version file that holds no COMMIT_HASH line.
GarbledMarker == <<[key |-> "BRANCH", value |-> "main"]>>

RECURSIVE ScanKey(_, _)
ScanKey(lines, key) ==
  IF lines = <<>> THEN None
  ELSE IF Head(lines).key = key THEN Some(Head(lines).value)
  ELSE ScanKey(Tail(lines), key)

\* Installer.parse_version_file: None for a missing file or a missing key.
parse_version_file(file, key) ==
  IF file = None THEN None ELSE ScanKey(file[1], key)

\* Installer.get_remote_version, given what download_text returned.
get_remote_version(content) ==
  IF content = None THEN None ELSE ScanKey(content[1], "COMMIT_HASH")

\* A directory tree rooted at .aiassisted: the marker, FILES.txt, the payload.
EmptyFiles == [p \in Paths |-> NoFile]
NoTree == [exists |-> FALSE, version |-> None, manifest |-> None, files |-> EmptyFiles]
\* A staging directory from tempfile.mkdtemp(): its .aiassisted tree, and the
\* FILES.txt that install downloads beside it.
NoStaging == [exists |-> FALSE, version |-> None, manifest |-> None,
              files |-> EmptyFiles, rootManifest |-> None]
Mkdtemp == [NoStaging EXCEPT !.exists = TRUE]
StagedTree(stg) == [exists |-> TRUE, version |-> stg.version,
                    manifest |-> stg.manifest, files |-> stg.files]

\* ------------------------------------------------------------------ state

VARIABLES
  target,          \* the tree at <target>/.aiassisted
  staging,         \* the temporary directory of the running operation
  remote,          \* the remote source: its commit and its FILES.txt text
  remoteChanges,   \* how many commits reached the remote so far
  pc,              \* where the running operation stands
  op,              \* the running operation: kind, force flag, from the CLI or not
  remoteManifest,  \* the Manifest.files parsed from the fetched FILES.txt
  changed,         \* compare_with's first list
  unchanged,       \* compare_with's second list
  idx,             \* the position of the running for loop
  fetched,         \* the payload paths requested from the remote by this operation
  preview,         \* what the preview step printed
  warned,          \* whether "Could not generate diff" was logged
  prompted,        \* whether Confirm.ask was called
  result,          \* what Installer.install / Installer.update returned or raised
  exitCode,        \* the process exit status of a CLI command
  cause,           \* why the operation ended
  loggedError,     \* whether an [ERROR] line was printed
  target0,         \* the target tree when the operation started
  commit0,         \* the remote commit when the operation started
  prev,            \* whether the operation before this one was an update that
                   \* returned True, and the remote commit it started at
  opsRun,          \* how many operations were started
  fnIn,            \* the arguments of a library function called on its own
  fnOut            \* what that call returned

vars == <<target, staging, remote, remoteChanges, pc, op, remoteManifest, changed,
          unchanged, idx, fetched, preview, warned, prompted, result, exitCode,
          cause, loggedError, target0, commit0, prev, opsRun, fnIn, fnOut>>

fnVars == <<fnIn, fnOut>>
opVars == <<target, staging, remote, remoteChanges, pc, op, remoteManifest, changed,
            unchanged, idx, fetched, preview, warned, prompted, result, exitCode,
            cause, loggedError, target0, commit0, prev, opsRun>>

\* ----------------------------------------------------------------- inputs

Entry(p, h) == [path |-> p, hash |-> h]

\* Every Manifest.files over Paths and Digests, in either insertion order.
Manifests ==
  {<<>>}
  \cup {<<Entry(p, h)>> : p \in Paths, h \in Digests}
  \cup {<<Entry(p, h), Entry(q, g)>> :
          <<p, h, q, g>> \in {t \in Paths \X Digests \X Paths \X Digests : t[1] # t[3]}}

\* A FILES.txt with a comment, a blank line and a line without a separator.
CommentedText ==
  <<"#", " ", "a", NL, NL, "b", NL>> \o Serialize(<<Entry(PathA, <<"2">>)>>)

\* The FILES.txt texts the remote can serve: no entry, two entries in either
\* order, and one entry among lines that are no entries.
RemoteTexts ==
  {Serialize(<<>>),
   Serialize(<<Entry(PathA, <<"1">>), Entry(PathB, <<"2">>)>>),
   Serialize(<<Entry(PathB, <<"1">>), Entry(PathA, <<"2">>)>>),
   CommentedText}

\* The content whose digest is h.
ContentOf(h) == CHOOSE c \in Contents : calculate_sha256(c) = h

\* The tree a successful install of manifest m at commit c leaves.
InstalledTree(m, c) ==
  [exists |-> TRUE,
   version |-> Some(Marker(c)),
   manifest |-> Some(Serialize(m)),
   files |-> [p \in Paths |->
                IF DictGet(m, p) = None THEN NoFile ELSE ContentOf(DictGet(m, p)[1])]]

\* What a user may have done to an installed tree: nothing, or one local change.
LocalChanges(t) ==
  {t, [t EXCEPT !.version = None], [t EXCEPT !.version = Some(GarbledMarker)],
   [t EXCEPT !.manifest = None]}
  \cup {[t EXCEPT !.files[p] = c] : p \in Paths, c \in Contents \cup {NoFile}}

\* The manifests a local tree was installed from.
LocalManifests ==
  {<<Entry(PathA, <<"1">>)>>,
   <<Entry(PathA, <<"1">>), Entry(PathB, <<"2">>)>>}

\* No installed tree, or one installed at the remote's first commit and then
\* changed locally or not.
InitialTrees ==
  {NoTree} \cup UNION {LocalChanges(InstalledTree(m, 1)) : m \in LocalManifests}

NoOp == [kind |-> "none", force |-> FALSE, cli |-> FALSE]
NoPrev == [updated |-> FALSE, commit |-> 0]

Init ==
  /\ target \in InitialTrees
  /\ staging = NoStaging
  /\ remote \in {[commit |-> 1, manifest |-> t] : t \in RemoteTexts}
  /\ remoteChanges = 0
  /\ pc = "idle"
  /\ op = NoOp
  /\ remoteManifest = <<>>
  /\ changed = <<>>
  /\ unchanged = <<>>
  /\ idx = 0
  /\ fetched = {}
  /\ preview = "none"
  /\ warned = FALSE
  /\ prompted = FALSE
  /\ result = "none"
  /\ exitCode = None
  /\ cause = "none"
  /\ loggedError = FALSE
  /\ target0 = NoTree
  /\ commit0 = 0
  /\ prev = NoPrev
  /\ opsRun = 0
  /\ fnIn = None
  /\ fnOut = None

\* ------------------------------------------------------- shared plumbing

ExitSuccess == 0
ExitFailure == 1
ExitCancelled == 130

\* What a fetch of a payload file can do: return some bytes, fail with an HTTP
\* or transport error (download_file returns False), or be interrupted by the
\* user (KeyboardInterrupt is no Exception: it leaves download_file).
FetchOutcomes == Contents \cup {"fail", "interrupt"}
TextOutcomes == {"ok", "fail", "interrupt"}

\* The variables an operation in progress never writes.
Frame == UNCHANGED <<op, target0, commit0, prev, opsRun, remote, remoteChanges, fnVars>>

\* The exit status main() gives for what a command's installer call did.
ExitOfInterruptAsError(res) ==
  IF res = "true" THEN ExitSuccess ELSE ExitFailure

ExitOf(res) ==
  IF res = "true" THEN ExitSuccess
  ELSE IF res = "interrupt" THEN ExitCancelled
  ELSE ExitFailure

\* The installer call ends: it returned True or False, or raised. `err` says
\* whether it printed an [ERROR] line itself; cmd_install, cmd_update and main
\* print one for a False result and for an exception.
Return(res, why, err, stg) ==
  /\ pc' = "done"
  /\ result' = res
  /\ cause' = why
  /\ staging' = stg
  /\ loggedError' = (loggedError \/ err \/ (op.cli /\ res \in {"false", "exception"}))
  /\ exitCode' = IF op.cli THEN Some(ExitOf(res)) ELSE None

\* A CLI command ends without calling the installer.
Exit(code, why, err) ==
  /\ pc' = "done"
  /\ result' = "none"
  /\ cause' = why
  /\ staging' = staging
  /\ loggedError' = (loggedError \/ err)
  /\ exitCode' = Some(code)

Goto(next, stg) ==
  /\ pc' = next
  /\ staging' = stg
  /\ UNCHANGED <<result, cause, loggedError, exitCode>>

\* A cleanup that removes nothing.
RmtreeSkipped(stg) == stg

\* shutil.rmtree(temp_dir, ignore_errors=True)
Rmtree(stg) == NoStaging

\* A new operation starts: the locals of the one before are gone.
Begin(kind, force, cli) ==
  /\ pc \in {"idle", "done"}
  /\ opsRun < MaxOps
  /\ opsRun' = opsRun + 1
  /\ op' = [kind |-> kind, force |-> force, cli |-> cli]
  /\ target0' = target
  /\ commit0' = remote.commit
  /\ prev' = IF op.kind = "update" /\ result = "true"
              THEN [updated |-> TRUE, commit |-> commit0]
              ELSE NoPrev
  /\ remoteManifest' = <<>>
  /\ changed' = <<>>
  /\ unchanged' = <<>>
  /\ idx' = 0
  /\ fetched' = {}
  /\ preview' = "none"
  /\ warned' = FALSE
  /\ prompted' = FALSE
  /\ result' = "none"
  /\ exitCode' = None
  /\ cause' = "none"
  /\ loggedError' = FALSE
  /\ UNCHANGED <<target, remote, remoteChanges, fnVars>>

\* A commit reaches the remote: a new marker and some FILES.txt.
RemoteChange ==
  /\ pc # "fn"
  /\ remoteChanges < MaxRemoteChanges
  /\ remoteChanges' = remoteChanges + 1
  /\ \E t \in RemoteTexts : remote' = [commit |-> remote.commit + 1, manifest |-> t]
  /\ UNCHANGED <<target, staging, pc, op, remoteManifest, changed, unchanged, idx,
                 fetched, preview, warned, prompted, result, exitCode, cause,
                 loggedError, target0, commit0, prev, opsRun, fnVars>>

\* ------------------------------------------------------ Installer.update

\* A caller other than the CLI calls Installer.update on an installed tree.
StartUpdate ==
  /\ target.exists
  /\ \E force \in BOOLEAN : Begin("update", force, FALSE)
  /\ pc' = "u_manifest"
  /\ staging' = NoStaging

\* update, lines 236-246: fetch FILES.txt as text and parse it.
UpdateFetchManifest ==
  /\ pc = "u_manifest"
  /\ \E outcome \in TextOutcomes :
       IF outcome = "ok"
       THEN /\ remoteManifest' = load_from_content(<<>>, remote.manifest)
            /\ Goto("u_diff", staging)
       ELSE /\ remoteManifest' = remoteManifest
            /\ IF outcome = "fail"
               THEN Return("false", "manifest_fetch_failed", TRUE, staging)
               ELSE Return("interrupt", "interrupt", FALSE, staging)
  /\ UNCHANGED <<target, changed, unchanged, idx, fetched, preview, warned, prompted>>
  /\ Frame

\* A local manifest that is never loaded: every remote path counts as changed.
LocalManifestNotLoaded(tree) == <<>>

\* The Manifest.files download_changed_files loads from the target's FILES.txt.
LocalManifest(tree) ==
  IF tree.manifest # None THEN load_from_file(<<>>, tree.manifest).files ELSE <<>>

\* download_changed_files, lines 159-175: load the local manifest, diff, mkdtemp.
DownloadChangedBegin ==
  /\ pc = "u_diff"
  /\ LET diff == compare_with(LocalManifest(target), remoteManifest) IN
       /\ changed' = diff.changed
       /\ unchanged' = diff.unchanged
       /\ idx' = 1
       /\ Goto(IF diff.changed = <<>> THEN "u_version" ELSE "u_fetch", Mkdtemp)
  /\ UNCHANGED <<target, remoteManifest, fetched, preview, warned, prompted>>
  /\ Frame

\* download_file(file_url, target_dir / filepath), where target_dir is the
\* .aiassisted directory of the temporary directory: the bytes go to staging.
WriteFetchedInPlace(tgt, stg, filepath, content) ==
  [target |-> [tgt EXCEPT !.exists = TRUE, !.files[filepath] = content],
   staging |-> [stg EXCEPT !.files[filepath] = content]]

WriteFetched(tgt, stg, filepath, content) ==
  [target |-> tgt, staging |-> [stg EXCEPT !.files[filepath] = content]]

\* The paths the download loop of download_changed_files walks.
DownloadListAll(chg, manifest) == [i \in 1..Len(manifest) |-> manifest[i].path]

DownloadList(chg, manifest) == chg

\* download_changed_files, lines 178-193: one turn of the loop. It runs outside
\* update's try/finally: only its two `return None` branches remove temp_dir.
DownloadChangedFile ==
  /\ pc = "u_fetch"
  /\ LET todo == DownloadList(changed, remoteManifest)
         filepath == todo[idx]
         expected_hash == DictGet(remoteManifest, filepath)[1]
     IN /\ fetched' = fetched \cup {filepath}
        /\ \E outcome \in FetchOutcomes, readable \in BOOLEAN :
             IF outcome = "fail"
             THEN /\ Return("false", "fetch_failed", TRUE, Rmtree(staging))
                  /\ UNCHANGED <<idx, target>>
             ELSE IF outcome = "interrupt"
             THEN /\ Return("interrupt", "interrupt", FALSE, staging)
                  /\ UNCHANGED <<idx, target>>
             ELSE LET w == WriteFetched(target, staging, filepath, outcome)
                      stg == w.staging
                  IN /\ target' = w.target
                     /\ IF ~readable
                        THEN /\ Return("exception", "verify_raised", FALSE, stg)
                             /\ idx' = idx
                        ELSE IF ~verify_checksum(stg.files[filepath], expected_hash)
                        THEN /\ Return("false", "checksum", TRUE, Rmtree(stg))
                             /\ idx' = idx
                        ELSE /\ Goto(IF idx = Len(todo) THEN "u_version" ELSE "u_fetch", stg)
                             /\ idx' = idx + 1
  /\ UNCHANGED <<remoteManifest, changed, unchanged, preview, warned, prompted>>
  /\ Frame

\* update, lines 254-260: fetch .version into staging, inside try/finally.
UpdateFetchVersion ==
  /\ pc = "u_version"
  /\ \E outcome \in TextOutcomes :
       IF outcome = "ok"
       THEN Goto(IF op.force THEN "u_apply_version" ELSE "u_preview",
                 [staging EXCEPT !.version = Some(Marker(remote.commit))])
       ELSE IF outcome = "fail"
       THEN Return("false", "version_fetch_failed", TRUE, Rmtree(staging))
       ELSE Return("interrupt", "interrupt", FALSE, Rmtree(staging))
  /\ UNCHANGED <<target, remoteManifest, changed, unchanged, idx, fetched, preview,
                 warned, prompted>>
  /\ Frame

\* any((temp_dir / ".aiassisted").iterdir())
has_changes(stg) ==
  stg.version # None \/ stg.manifest # None \/ \E p \in Paths : stg.files[p] # NoFile

\* A preview without the inner try: a diff that raises ends the update.
PreviewDiffAborts ==
  /\ pc = "u_preview"
  /\ preview' = IF has_changes(staging) THEN "changes" ELSE "metadata_only"
  /\ \E raised \in BOOLEAN :
       /\ warned' = (raised /\ has_changes(staging))
       /\ IF raised /\ has_changes(staging)
          THEN Return("exception", "diff_failed", FALSE, Rmtree(staging))
          ELSE Goto("u_confirm", staging)
  /\ UNCHANGED <<target, remoteManifest, changed, unchanged, idx, fetched, prompted>>
  /\ Frame

\* update, lines 263-301: the preview; a diff that raises is only a warning.
Preview ==
  /\ pc = "u_preview"
  /\ IF has_changes(staging)
     THEN /\ preview' = "changes"
          /\ \E raised \in BOOLEAN : warned' = raised
     ELSE /\ preview' = "metadata_only"
          /\ warned' = warned
  /\ Goto("u_confirm", staging)
  /\ UNCHANGED <<target, remoteManifest, changed, unchanged, idx, fetched, prompted>>
  /\ Frame

\* update, lines 303-306: Confirm.ask.
Confirm ==
  /\ pc = "u_confirm"
  /\ prompted' = TRUE
  /\ \E answer \in {"yes", "no", "interrupt"} :
       IF answer = "yes" THEN Goto("u_apply_version", staging)
       ELSE IF answer = "no" THEN Return("false", "declined", FALSE, Rmtree(staging))
       ELSE Return("interrupt", "interrupt", FALSE, Rmtree(staging))
  /\ UNCHANGED <<target, remoteManifest, changed, unchanged, idx, fetched, preview, warned>>
  /\ Frame

\* ------------------------------------- Installer.apply_selective_update

\* Each write into the target may raise an OSError (a local file-system error);
\* the exception leaves update through its finally, which removes staging.
IoError == Return("exception", "io_error", FALSE, Rmtree(staging))

\* The user's interrupt (KeyboardInterrupt) during a write leaves install and
\* update the same way, through the finally, and reaches main.
Interrupted == Return("interrupt", "interrupt", FALSE, Rmtree(staging))

\* What can happen to one write: it is done, it raises, the user interrupts it.
WriteOutcomes == {"ok", "io_error", "interrupt"}
Raised(fault) == IF fault = "interrupt" THEN Interrupted ELSE IoError

\* lines 337-341: copy the staged .version over the target's.
ApplyVersion ==
  /\ pc = "u_apply_version"
  /\ \E fault \in WriteOutcomes :
       IF fault # "ok" /\ staging.version # None
       THEN /\ Raised(fault)
            /\ target' = target
       ELSE /\ target' = IF staging.version # None
                         THEN [target EXCEPT !.version = staging.version]
                         ELSE target
            /\ Goto("u_apply_manifest", staging)
  /\ UNCHANGED <<remoteManifest, changed, unchanged, idx, fetched, preview, warned, prompted>>
  /\ Frame

\* lines 345-347: the entries written to FILES.txt, remote_manifest.files.items().
ManifestEntriesChangedOnly(manifest, chg) ==
  SelectSeq(manifest, LAMBDA e : \E i \in 1..Len(chg) : chg[i] = e.path)

ManifestEntries(manifest, chg) == manifest

\* lines 343-347: rewrite FILES.txt from the remote manifest.
ApplyManifest ==
  /\ pc = "u_apply_manifest"
  /\ \E fault \in WriteOutcomes :
       IF fault # "ok"
       THEN /\ Raised(fault)
            /\ target' = target
            /\ idx' = idx
       ELSE /\ target' = [target EXCEPT !.manifest =
                                Some(Serialize(ManifestEntries(remoteManifest, changed)))]
            /\ idx' = 1
            /\ IF remoteManifest = <<>>
               THEN Return("true", "none", FALSE, Rmtree(staging))
               ELSE Goto("u_apply_files", staging)
  /\ UNCHANGED <<remoteManifest, changed, unchanged, fetched, preview, warned, prompted>>
  /\ Frame

\* lines 350-361: one turn of the copy loop over remote_manifest.files.keys().
ApplyFile ==
  /\ pc = "u_apply_files"
  /\ LET filepath == remoteManifest[idx].path
         staged == staging.files[filepath] # NoFile
     IN \E fault \in WriteOutcomes :
          IF fault # "ok" /\ staged
          THEN /\ Raised(fault)
               /\ target' = target
               /\ idx' = idx
          ELSE /\ target' = IF staged
                            THEN [target EXCEPT !.files[filepath] = staging.files[filepath]]
                            ELSE target
               /\ idx' = idx + 1
               /\ IF idx = Len(remoteManifest)
                  THEN Return("true", "none", FALSE, Rmtree(staging))
                  ELSE Goto("u_apply_files", staging)
  /\ UNCHANGED <<remoteManifest, changed, unchanged, fetched, preview, warned, prompted>>
  /\ Frame

\* ----------------------------------------------------- Installer.install

\* A caller other than the CLI calls Installer.install: line 207, mkdtemp.
StartInstall ==
  /\ Begin("install", FALSE, FALSE)
  /\ pc' = "i_version"
  /\ staging' = Mkdtemp

\* download_aiassisted, lines 107-110: fetch .version into staging.
InstallFetchVersion ==
  /\ pc = "i_version"
  /\ \E outcome \in TextOutcomes :
       IF outcome = "ok"
       THEN Goto("i_manifest", [staging EXCEPT !.version = Some(Marker(remote.commit))])
       ELSE IF outcome = "fail"
       THEN Return("false", "version_fetch_failed", TRUE, Rmtree(staging))
       ELSE Return("interrupt", "interrupt", FALSE, Rmtree(staging))
  /\ UNCHANGED <<target, remoteManifest, changed, unchanged, idx, fetched, preview,
                 warned, prompted>>
  /\ Frame

\* download_aiassisted, lines 112-122: fetch FILES.txt beside the staged tree
\* and load it.
InstallFetchManifest ==
  /\ pc = "i_manifest"
  /\ \E outcome \in TextOutcomes :
       IF outcome = "ok"
       THEN LET stg == [staging EXCEPT !.rootManifest = Some(remote.manifest)]
                loaded == load_from_file(<<>>, stg.rootManifest).files
            IN /\ remoteManifest' = loaded
               /\ idx' = 1
               /\ Goto(IF loaded = <<>> THEN "i_copy_manifest" ELSE "i_fetch", stg)
       ELSE /\ remoteManifest' = remoteManifest
            /\ idx' = idx
            /\ IF outcome = "fail"
               THEN Return("false", "manifest_fetch_failed", TRUE, Rmtree(staging))
               ELSE Return("interrupt", "interrupt", FALSE, Rmtree(staging))
  /\ UNCHANGED <<target, changed, unchanged, fetched, preview, warned, prompted>>
  /\ Frame

\* download_aiassisted, lines 125-139: one turn of the loop, inside install's
\* try/finally.
InstallFetchFile ==
  /\ pc = "i_fetch"
  /\ LET filepath == remoteManifest[idx].path
         expected_hash == remoteManifest[idx].hash
     IN /\ fetched' = fetched \cup {filepath}
        /\ \E outcome \in FetchOutcomes, readable \in BOOLEAN :
             IF outcome = "fail"
             THEN /\ Return("false", "fetch_failed", TRUE, Rmtree(staging))
                  /\ UNCHANGED <<idx, target>>
             ELSE IF outcome = "interrupt"
             THEN /\ Return("interrupt", "interrupt", FALSE, Rmtree(staging))
                  /\ UNCHANGED <<idx, target>>
             ELSE LET w == WriteFetched(target, staging, filepath, outcome)
                      stg == w.staging
                  IN /\ target' = w.target
                     /\ IF ~readable
                        THEN /\ Return("exception", "verify_raised", FALSE, Rmtree(stg))
                             /\ idx' = idx
                        ELSE IF ~verify_checksum(stg.files[filepath], expected_hash)
                        THEN /\ Return("false", "checksum", TRUE, Rmtree(stg))
                             /\ idx' = idx
                        ELSE /\ Goto(IF idx = Len(remoteManifest)
                                     THEN "i_copy_manifest" ELSE "i_fetch", stg)
                             /\ idx' = idx + 1
  /\ UNCHANGED <<remoteManifest, changed, unchanged, preview, warned, prompted>>
  /\ Frame

\* download_aiassisted, lines 141-145: copy FILES.txt into the staged tree.
InstallCopyManifest ==
  /\ pc = "i_copy_manifest"
  /\ \E fault \in WriteOutcomes :
       IF fault # "ok"
       THEN Raised(fault)
       ELSE Goto("i_replace", [staging EXCEPT !.manifest = staging.rootManifest])
  /\ UNCHANGED <<target, remoteManifest, changed, unchanged, idx, fetched, preview,
                 warned, prompted>>
  /\ Frame

\* The entries of a tree that copytree copies one by one: the two fixed names,
\* and the payload paths.
VersionEntry == <<".version">>
ManifestEntry == <<"FILES.txt">>
TreeEntries(tree) ==
  (IF tree.version # None THEN {VersionEntry} ELSE {})
  \cup (IF tree.manifest # None THEN {ManifestEntry} ELSE {})
  \cup {p \in Paths : tree.files[p] # NoFile}

\* `tree` without the entry e.
Without(tree, e) ==
  IF e = VersionEntry THEN [tree EXCEPT !.version = None]
  ELSE IF e = ManifestEntry THEN [tree EXCEPT !.manifest = None]
  ELSE [tree EXCEPT !.files[e] = NoFile]

\* An install that copies the staged tree over the old one without removing it.
ReplaceTreeMerge(old, new) ==
  [exists |-> TRUE,
   version |-> IF new.version # None THEN new.version ELSE old.version,
   manifest |-> IF new.manifest # None THEN new.manifest ELSE old.manifest,
   files |-> [p \in Paths |-> IF new.files[p] # NoFile THEN new.files[p] ELSE old.files[p]]]

\* install, lines 215-219: rmtree the old tree, copytree the staged one.
ReplaceTree(old, new) == new

\* install, lines 214-224. copytree goes on after a file it cannot copy and
\* raises at its end: the target then holds the staged tree less that entry.
\* An interrupt is taken while the last entry is copied.
InstallReplace ==
  /\ pc = "i_replace"
  /\ \E fault \in WriteOutcomes :
       IF fault # "ok"
       THEN /\ \E e \in TreeEntries(StagedTree(staging)) :
                 target' = ReplaceTree(target, Without(StagedTree(staging), e))
            /\ Raised(fault)
       ELSE /\ target' = ReplaceTree(target, StagedTree(staging))
            /\ Return("true", "none", FALSE, Rmtree(staging))
  /\ UNCHANGED <<remoteManifest, changed, unchanged, idx, fetched, preview, warned, prompted>>
  /\ Frame

\* ------------------------------------------------------------------ cli.py

\* What a python variable holding a str or None holds.
Unknown == Some("unknown")

\* cmd_update and cmd_check, lines 118-124 and 163-169.
LocalHash(tree) ==
  IF tree.version = None THEN Unknown
  ELSE parse_version_file(tree.version, "COMMIT_HASH")

\* What download_text gives get_remote_version for the remote's .version.
RemoteVersionText(outcome) ==
  IF outcome = "ok" THEN Some(Marker(remote.commit)) ELSE None

\* cmd_update line 133 and cmd_check line 177.
up_to_date(local_hash, remote_hash) ==
  local_hash # Unknown /\ local_hash = remote_hash

StartCmdInstall ==
  /\ Begin("install", FALSE, TRUE)
  /\ pc' = "cmd_install"
  /\ staging' = NoStaging

\* An install command that installs over whatever tree is there.
CmdInstallOverwrites ==
  /\ pc = "cmd_install"
  /\ Goto("i_version", Mkdtemp)
  /\ UNCHANGED <<target, remoteManifest, changed, unchanged, idx, fetched, preview,
                 warned, prompted>>
  /\ Frame

\* cmd_install, lines 48-84, up to the call of Installer.install.
CmdInstall ==
  /\ pc = "cmd_install"
  /\ IF ~target.exists
     THEN Goto("i_version", Mkdtemp)
     ELSE IF target.version = None
     THEN Exit(ExitSuccess, "no_version", FALSE)
     ELSE \E outcome \in TextOutcomes :
            LET local_hash == parse_version_file(target.version, "COMMIT_HASH")
                remote_hash == get_remote_version(RemoteVersionText(outcome))
            IN IF outcome = "interrupt"
               THEN Exit(ExitCancelled, "interrupt", FALSE)
               ELSE Exit(ExitSuccess,
                         IF local_hash = remote_hash THEN "up_to_date" ELSE "outdated",
                         FALSE)
  /\ UNCHANGED <<target, remoteManifest, changed, unchanged, idx, fetched, preview,
                 warned, prompted>>
  /\ Frame

StartCmdUpdate ==
  /\ \E force \in BOOLEAN : Begin("update", force, TRUE)
  /\ pc' = "cmd_update"
  /\ staging' = NoStaging

\* cmd_update, lines 106-144, up to the call of Installer.update.
CmdUpdate ==
  /\ pc = "cmd_update"
  /\ IF ~target.exists
     THEN Exit(ExitFailure, "not_installed", TRUE)
     ELSE \E outcome \in TextOutcomes :
            LET local_hash == LocalHash(target)
                remote_hash == get_remote_version(RemoteVersionText(outcome))
            IN IF outcome = "interrupt"
               THEN Exit(ExitCancelled, "interrupt", FALSE)
               ELSE IF up_to_date(local_hash, remote_hash)
               THEN Exit(ExitSuccess, "up_to_date", FALSE)
               ELSE Goto("u_manifest", staging)
  /\ UNCHANGED <<target, remoteManifest, changed, unchanged, idx, fetched, preview,
                 warned, prompted>>
  /\ Frame

StartCmdCheck ==
  /\ Begin("check", FALSE, TRUE)
  /\ pc' = "cmd_check"
  /\ staging' = NoStaging

\* cmd_check, lines 151-183.
CmdCheck ==
  /\ pc = "cmd_check"
  /\ IF ~target.exists
     THEN Exit(ExitFailure, "not_installed", TRUE)
     ELSE \E outcome \in TextOutcomes :
            LET local_hash == LocalHash(target)
                remote_hash == get_remote_version(RemoteVersionText(outcome))
            IN IF outcome = "interrupt"
               THEN Exit(ExitCancelled, "interrupt", FALSE)
               ELSE Exit(ExitSuccess,
                         IF up_to_date(local_hash, remote_hash)
                         THEN "up_to_date" ELSE "update_available",
                         FALSE)
  /\ UNCHANGED <<target, remoteManifest, changed, unchanged, idx, fetched, preview,
                 warned, prompted>>
  /\ Frame

\* ------------------------------------------------------- specifications

Next ==
  \/ RemoteChange
  \/ StartInstall \/ StartUpdate
  \/ StartCmdInstall \/ StartCmdUpdate \/ StartCmdCheck
  \/ CmdInstall \/ CmdUpdate \/ CmdCheck
  \/ InstallFetchVersion \/ InstallFetchManifest \/ InstallFetchFile
  \/ InstallCopyManifest \/ InstallReplace
  \/ UpdateFetchManifest \/ DownloadChangedBegin \/ DownloadChangedFile
  \/ UpdateFetchVersion \/ Preview \/ Confirm
  \/ ApplyVersion \/ ApplyManifest \/ ApplyFile

Spec == Init /\ [][Next]_vars

\* Paths a manifest may list beside the plain ones: with a separator inside,
\* with a leading comment sign or blank, with a comment sign or blank further on.
OddPaths == {<<"a", ":", "b">>, <<"#", "a">>, <<" ", "a">>, <<"a", "#">>, <<"a", " ">>}
RoundTripPaths == Paths \cup OddPaths

\* The mappings over those paths with at most two entries, in either order.
RoundTripManifests ==
  {<<>>}
  \cup {<<Entry(p, h)>> : p \in RoundTripPaths, h \in Digests}
  \cup {<<Entry(p, h), Entry(q, g)>> :
          <<p, h, q, g>> \in {t \in RoundTripPaths \X Digests \X RoundTripPaths \X Digests :
                                t[1] # t[3]}}

\* The digests of the model's contents and one that no content has.
ExpectedHashes == Digests \cup {<<"3">>}

\* Lines a manifest text may hold: entries, one of them padded with blanks,
\* one with a second ":", one without a path, one without a digest; a comment
\* that looks like an entry, an indented comment, a blank line, an empty line
\* and a line without ":".
ManifestLines ==
  {<<"a", ":", "1">>, <<"a", ":", "2">>, <<"b", ":", "1">>,
   <<" ", "b", ":", "2", " ">>, <<"a", ":", "b", ":", "1">>,
   <<":", "1">>, <<"a", ":">>,
   <<"#", "a", ":", "1">>, <<" ", "#", "b">>, <<" ">>, <<>>, <<"a">>}

\* At most this many lines in a manifest text that is parsed on its own.
MaxLines == 3

LineLists == UNION {[1..n -> ManifestLines] : n \in 0..MaxLines}

\* The lines joined by newlines, the last line with or without its newline.
RECURSIVE JoinLines(_, _)
JoinLines(lines, trailing) ==
  IF lines = <<>> THEN <<>>
  ELSE IF Len(lines) = 1 THEN Head(lines) \o (IF trailing THEN <<NL>> ELSE <<>>)
  ELSE Head(lines) \o <<NL>> \o JoinLines(Tail(lines), trailing)

\* The functions of manifest.py called on their own, on every input above.
InitFn ==
  /\ target = NoTree
  /\ staging = NoStaging
  /\ remote = [commit |-> 1, manifest |-> <<>>]
  /\ remoteChanges = 0
  /\ pc = "fn"
  /\ op = NoOp
  /\ remoteManifest = <<>>
  /\ changed = <<>>
  /\ unchanged = <<>>
  /\ idx = 0
  /\ fetched = {}
  /\ preview = "none"
  /\ warned = FALSE
  /\ prompted = FALSE
  /\ result = "none"
  /\ exitCode = None
  /\ cause = "none"
  /\ loggedError = FALSE
  /\ target0 = NoTree
  /\ commit0 = 0
  /\ prev = NoPrev
  /\ opsRun = 0
  /\ fnIn \in {Some([fn |-> "compare_with", local |-> l, remote |-> r]) :
                 l \in Manifests, r \in Manifests}
            \cup {Some([fn |-> "round_trip", files |-> m]) : m \in RoundTripManifests}
            \cup {Some([fn |-> "verify_checksum", file |-> f, expected_hash |-> h]) :
                    f \in Contents \cup {NoFile}, h \in ExpectedHashes}
            \cup {Some([fn |-> "parse", lines |-> ls, trailing |-> t]) :
                    ls \in LineLists, t \in BOOLEAN}
  /\ fnOut = None

CallCompareWith ==
  /\ pc = "fn"
  /\ fnOut = None
  /\ fnIn[1].fn = "compare_with"
  /\ fnOut' = Some(compare_with(fnIn[1].local, fnIn[1].remote))
  /\ UNCHANGED <<fnIn, opVars>>

\* FILES.txt written as apply_selective_update writes it, then read back into
\* an empty Manifest by load_from_content and by load_from_file.
CallRoundTrip ==
  /\ pc = "fn"
  /\ fnOut = None
  /\ fnIn[1].fn = "round_trip"
  /\ LET text == Serialize(fnIn[1].files)
     IN fnOut' = Some([from_content |-> load_from_content(<<>>, text),
                       from_file |-> load_from_file(<<>>, Some(text)).files])
  /\ UNCHANGED <<fnIn, opVars>>

CallVerifyChecksum ==
  /\ pc = "fn"
  /\ fnOut = None
  /\ fnIn[1].fn = "verify_checksum"
  /\ fnOut' = Some(verify_checksum(fnIn[1].file, fnIn[1].expected_hash))
  /\ UNCHANGED <<fnIn, opVars>>

\* A text parsed into an empty Manifest by load_from_content, and the same
\* text as a file by load_from_file.
CallParse ==
  /\ pc = "fn"
  /\ fnOut = None
  /\ fnIn[1].fn = "parse"
  /\ LET text == JoinLines(fnIn[1].lines, fnIn[1].trailing)
         loaded == load_from_file(<<>>, Some(text))
     IN fnOut' = Some([from_content |-> load_from_content(<<>>, text),
                       from_file |-> loaded.files,
                       ok |-> loaded.ok])
  /\ UNCHANGED <<fnIn, opVars>>

NextFn == CallCompareWith \/ CallRoundTrip \/ CallVerifyChecksum \/ CallParse

SpecFn == InitFn /\ [][NextFn]_vars

\* ------------------------------------------------------------------ claims

\* The digests a manifest records for path p, read off its entries.
HashesOf(m, p) == {m[i].hash : i \in {j \in 1..Len(m) : m[j].path = p}}
PathsOf(m) == {m[i].path : i \in 1..Len(m)}
Elems(seq) == {seq[i] : i \in 1..Len(seq)}

\* The manifest a tree's FILES.txt holds, empty when there is none.
ManifestOfTree(tree) ==
  IF tree.manifest = None THEN <<>> ELSE load_from_file(<<>>, tree.manifest).files

\* The remote paths that are absent from local or differ from it in digest.
ChangedSet(local, rem) ==
  {p \in PathsOf(rem) : HashesOf(local, p) = {} \/ HashesOf(local, p) # HashesOf(rem, p)}

FetchStageFailures == {"fetch_failed", "checksum", "version_fetch_failed"}
InstallPcs == {"cmd_install", "i_version", "i_manifest", "i_fetch", "i_copy_manifest",
               "i_replace"}
ApplyPcs == {"u_confirm", "u_apply_version", "u_apply_manifest", "u_apply_files"}

\* C1: an update that ends because the fetch of a changed file failed, because
\* a fetched file's digest is not the one the remote manifest records, or
\* because the fetch of the version marker failed, returns False and leaves
\* the target tree exactly as it was when the update started.
C1_UpdateFetchFailureLeavesTarget ==
  (op.kind = "update" /\ pc = "done" /\ cause \in FetchStageFailures)
    => (result = "false" /\ target = target0)

C1_Witness ==
  /\ op.kind = "update" /\ pc = "done" /\ cause = "checksum"
  /\ Cardinality(fetched) = 2
  /\ target0.exists /\ target = target0

\* C2: an install writes nothing under the target before every listed file is
\* fetched and verified in staging, and an install that ends on a failed fetch
\* (marker, manifest or payload) or a failed verification returns False with
\* the existing tree unchanged.
C2_InstallFailureLeavesTarget ==
  op.kind = "install" =>
    /\ pc \in InstallPcs => target = target0
    /\ (pc = "done" /\ cause \in FetchStageFailures \cup {"manifest_fetch_failed"})
         => (result = "false" /\ target = target0)

C2_Witness ==
  /\ op.kind = "install" /\ pc = "done" /\ cause = "checksum"
  /\ Cardinality(fetched) = 2
  /\ target0.exists /\ target0.version # None /\ target = target0

\* C3: no install or update ends with the target's marker newly written while
\* the manifest of that fetch, or a payload file fetched with it, is not in the
\* target.
C3_MarkerNeverAhead ==
  (pc = "done" /\ op.kind \in {"install", "update"}
     /\ target.version # None /\ target.version # target0.version)
    => /\ ManifestOfTree(target) = remoteManifest
       /\ \A p \in PathsOf(remoteManifest) \cap fetched :
            target.files[p] # NoFile
            /\ calculate_sha256(target.files[p]) \in HashesOf(remoteManifest, p)

\* C4: after a successful install or update every path the target's manifest
\* lists is present in the target and its content has the recorded digest.
C4_ManifestMatchesTree ==
  (pc = "done" /\ op.kind \in {"install", "update"} /\ result = "true")
    => \A p \in PathsOf(ManifestOfTree(target)) :
         /\ target.files[p] # NoFile
         /\ HashesOf(ManifestOfTree(target), p) = {calculate_sha256(target.files[p])}

\* C5: compare_with(local, remote) puts a path in changed iff remote lists it
\* and local lacks it or records another digest, in unchanged iff both record
\* the same digest; the two lists are disjoint and cover the remote paths.
C5_CompareWithPartitions ==
  (fnOut # None /\ fnIn[1].fn = "compare_with") =>
    LET local == fnIn[1].local
        rem == fnIn[1].remote
        chg == Elems(fnOut[1].changed)
        unc == Elems(fnOut[1].unchanged)
    IN /\ chg = ChangedSet(local, rem)
       /\ unc = {p \in PathsOf(rem) : HashesOf(local, p) = HashesOf(rem, p)}
       /\ chg \cap unc = {}
       /\ chg \cup unc = PathsOf(rem)

C5_Witness ==
  /\ fnOut # None /\ fnIn[1].fn = "compare_with"
  /\ Len(fnOut[1].changed) = 1 /\ Len(fnOut[1].unchanged) = 1
  /\ fnIn[1].local[1].path # fnIn[1].remote[1].path

\* The running update follows an update that returned True, and the remote has
\* not changed since that first update started.
SecondRun == op.kind = "update" /\ prev.updated /\ prev.commit = remote.commit

\* C6: an update run after a successful update, against the same remote,
\* computes an empty changed list, fetches no payload file and ends with the
\* target tree it started with.
C6_UpdateIdempotent ==
  SecondRun => /\ changed = <<>>
               /\ fetched = {}
               /\ pc = "done" => target = target0

C6_Witness ==
  /\ SecondRun /\ pc = "done" /\ result = "true"
  /\ Len(unchanged) = 2

\* C7: an update fetches only paths of the changed set of the diff between the
\* local and the remote manifest, and has fetched all of them when it reaches
\* the confirmation or the apply step.
C7_FetchesOnlyChanged ==
  op.kind = "update" =>
    LET chg == ChangedSet(ManifestOfTree(target0), remoteManifest) IN
      /\ fetched \subseteq chg
      /\ pc \in ApplyPcs => fetched = chg
      /\ (pc = "done" /\ result = "true") => fetched = chg

C7_Witness ==
  /\ op.kind = "update" /\ pc = "u_confirm"
  /\ fetched = {PathB} /\ unchanged = <<PathA>>

\* C8: when the user declines the confirmation, the target tree is what it was
\* before the update and the staging directory is gone.
C8_DeclineLeavesTarget ==
  (pc = "done" /\ cause = "declined") => (target = target0 /\ ~staging.exists)

C8_Witness ==
  /\ pc = "done" /\ cause = "declined" /\ fetched # {}
  /\ target = target0 /\ ~staging.exists

\* C9: a declined update is reported by the update command as a cancellation,
\* not as a failure: no error is printed and the exit status is not the one of
\* a failed update.
C9_DeclineIsNotAnError ==
  (pc = "done" /\ op.cli /\ cause = "declined")
    => (~loggedError /\ exitCode # Some(ExitFailure))

\* C10: when an install or update ends, on any exit path, the staging
\* directory it created is removed.
C10_StagingRemoved ==
  pc = "done" => ~staging.exists

\* C11: the check and update commands report "up to date" only when the
\* local marker has a COMMIT_HASH value and that value is the one the remote
\* marker fetched by the command carries; a missing marker, or one without a
\* COMMIT_HASH line, is never up to date, even when the remote fetch failed.
C11_UnknownLocalNeverUpToDate ==
  (pc = "done" /\ op.cli /\ op.kind \in {"update", "check"} /\ cause = "up_to_date")
    => /\ target0.version # None
       /\ parse_version_file(target0.version, "COMMIT_HASH") # None
       /\ \E c \in commit0..remote.commit :
            parse_version_file(target0.version, "COMMIT_HASH")
              = get_remote_version(Some(Marker(c)))

\* A path that a line of FILES.txt carries through unchanged: no separator and
\* no newline in it, no blank and no comment sign at its start.
PlainPath(p) ==
  /\ \A i \in 1..Len(p) : p[i] \notin {":", NL}
  /\ p # <<>> => Head(p) \notin Whitespace \cup {"#"}

\* C12 as stated: for any mapping of paths to fixed-length digests, writing
\* one "path:digest" line per entry and parsing the text into an empty
\* Manifest with load_from_content or load_from_file gives the same mapping.
C12_RoundTripAnyPath ==
  (fnOut # None /\ fnIn[1].fn = "round_trip")
    => /\ fnOut[1].from_content = fnIn[1].files
       /\ fnOut[1].from_file = fnIn[1].files

\* C12 amended: the round trip gives the same mapping when no path holds a
\* ":" or a newline, or starts with a blank or with "#".
C12_RoundTripPlainPaths ==
  (fnOut # None /\ fnIn[1].fn = "round_trip"
     /\ \A p \in PathsOf(fnIn[1].files) : PlainPath(p))
    => /\ fnOut[1].from_content = fnIn[1].files
       /\ fnOut[1].from_file = fnIn[1].files

C12_Witness ==
  /\ fnOut # None /\ fnIn[1].fn = "round_trip"
  /\ PathsOf(fnIn[1].files) = {PathB, <<"a", "#">>}
  /\ fnOut[1].from_content = fnIn[1].files
  /\ fnOut[1].from_file = fnIn[1].files

\* C13: verify_checksum(file, digest) is true iff the file exists and the
\* digest of its content is the expected digest; false for a missing file and
\* for another digest.
C13_VerifyChecksumIff ==
  (fnOut # None /\ fnIn[1].fn = "verify_checksum")
    => (fnOut[1] <=> (fnIn[1].file # NoFile
                      /\ ((fnIn[1].file = "x" /\ fnIn[1].expected_hash = <<"1">>)
                          \/ (fnIn[1].file = "y" /\ fnIn[1].expected_hash = <<"2">>))))

C13_Witness ==
  /\ fnOut # None /\ fnIn[1].fn = "verify_checksum"
  /\ fnIn[1].file = "y" /\ fnIn[1].expected_hash = <<"1">> /\ fnOut[1] = FALSE

\* C14: verify_checksum never raises: on a file that exists and cannot be
\* read it returns False, so no install or update ends on an error that came
\* out of the verification.
C14_VerifyNeverRaises ==
  (pc = "done" /\ op.kind \in {"install", "update"})
    => (cause # "verify_raised" /\ (cause = "checksum" => result = "false"))

\* C15: an update that returns True leaves in the target a FILES.txt with
\* exactly the entries of the remote manifest that update fetched, changed and
\* unchanged paths alike, and the version marker that update fetched.
C15_SuccessWritesManifestAndMarker ==
  [][(pc # "done" /\ pc' = "done" /\ op.kind = "update" /\ result' = "true")
       => /\ target'.manifest # None
          /\ load_from_file(<<>>, target'.manifest).files = remoteManifest
          /\ staging.version # None
          /\ target'.version = staging.version]_vars

C15_Witness ==
  /\ pc = "done" /\ op.kind = "update" /\ result = "true"
  /\ Len(changed) = 1 /\ Len(unchanged) = 1
  /\ ManifestOfTree(target) = remoteManifest
  /\ ManifestOfTree(target0) # remoteManifest
  /\ target.version = Some(Marker(2)) /\ target0.version = Some(Marker(1))

\* C16: every target file at a path the diff classed as unchanged, or at a
\* path the remote manifest does not list, is during and after an update what
\* it was before: the update writes only the marker, FILES.txt and the
\* changed paths.
C16_UpdateWritesOnlyChanged ==
  op.kind = "update" =>
    \A p \in Paths :
      (p \in Elems(unchanged) \/ (pc = "done" /\ result = "true"
                                    /\ p \notin PathsOf(remoteManifest)))
        => target.files[p] = target0.files[p]

C16_Witness ==
  /\ pc = "done" /\ op.kind = "update" /\ result = "true"
  /\ changed = <<PathA>> /\ PathB \notin PathsOf(remoteManifest)
  /\ target.files[PathA] # target0.files[PathA]
  /\ target.files[PathB] # NoFile /\ target.files[PathB] = target0.files[PathB]

\* The ways a command fails: install or update returned False or raised an
\* error, or there is no installed tree to update or check.
OrdinaryFailure ==
  result \in {"false", "exception"} \/ cause = "not_installed"

\* C17: a command the user interrupts, during a fetch, at the confirmation or
\* while the target is written, ends with exit status 130 and no other ending
\* has that status; a command that fails ends with 1, one that succeeds
\* with 0.
C17_InterruptExits130 ==
  (pc = "done" /\ op.cli)
    => /\ exitCode # None
       /\ (cause = "interrupt" \/ result = "interrupt") <=> exitCode = Some(ExitCancelled)
       /\ OrdinaryFailure <=> exitCode = Some(ExitFailure)
       /\ result = "true" => exitCode = Some(ExitSuccess)

C17_Witness ==
  /\ pc = "done" /\ op.cli /\ op.kind = "update"
  /\ cause = "interrupt" /\ exitCode = Some(ExitCancelled)
  /\ prompted /\ target # target0

\* C18: after an install in which every fetch and every verification
\* succeeded and that returned True, the target holds every path the remote
\* manifest lists with content of the recorded digest, a version marker, and
\* a FILES.txt with exactly the remote manifest's entries; no file, marker or
\* manifest of a tree installed there before is left.
C18_InstallReplacesTree ==
  (pc = "done" /\ op.kind = "install" /\ result = "true")
    => /\ target.exists
       /\ \A p \in PathsOf(remoteManifest) :
            /\ target.files[p] # NoFile
            /\ HashesOf(remoteManifest, p) = {calculate_sha256(target.files[p])}
       /\ \A p \in Paths \ PathsOf(remoteManifest) : target.files[p] = NoFile
       /\ \E c \in commit0..remote.commit : target.version = Some(Marker(c))
       /\ target.manifest # None
       /\ load_from_file(<<>>, target.manifest).files = remoteManifest

C18_Witness ==
  /\ pc = "done" /\ op.kind = "install" /\ result = "true"
  /\ target0.exists /\ target0.files[PathB] # NoFile /\ target0.version = Some(GarbledMarker)
  /\ PathsOf(remoteManifest) = {PathA}
  /\ target.files[PathA] = "y" /\ target.files[PathB] = NoFile
  /\ target.version = Some(Marker(1))

\* Everything the apply step waits for: the remote manifest was fetched and
\* diffed, every changed path was fetched and its staged copy has the remote
\* digest, the marker is staged, and the user said yes unless force is set.
ReadyToApply ==
  /\ pc \in {"u_apply_version", "u_apply_manifest", "u_apply_files"}
  /\ Elems(changed) = ChangedSet(ManifestOfTree(target0), remoteManifest)
  /\ fetched = Elems(changed)
  /\ \A p \in Elems(changed) :
       /\ staging.files[p] # NoFile
       /\ HashesOf(remoteManifest, p) = {calculate_sha256(staging.files[p])}
  /\ staging.version # None
  /\ op.force \/ prompted

\* C19: no step of an update writes to the target before the remote manifest
\* was fetched, every changed file was fetched and verified, the marker was
\* fetched and, without force, the user confirmed; with force the user is
\* never prompted and the apply step follows the marker's fetch directly.
C19_UpdateOrdering ==
  [][(op.kind = "update" /\ op'.kind = "update")
       => /\ target' # target => ReadyToApply
          /\ op.force => ~prompted'
          /\ (op.force /\ pc = "u_version" /\ pc' # "done" /\ pc' # pc)
               => pc' = "u_apply_version"]_vars

C19_Witness ==
  /\ op.kind = "update" /\ ~op.force /\ pc = "u_apply_files"
  /\ prompted /\ fetched = {PathA, PathB}
  /\ target.version # target0.version /\ target.manifest # target0.manifest

\* C20: an update of a target that has no FILES.txt diffs against an empty
\* local manifest: every path of the remote manifest is in the changed list,
\* the unchanged list is empty, and the update goes on to the fetches.
C20_NoLocalManifestAllChanged ==
  [][(op.kind = "update" /\ pc = "u_diff" /\ pc' # pc /\ target.manifest = None)
       => /\ changed' = [i \in 1..Len(remoteManifest) |-> remoteManifest[i].path]
          /\ unchanged' = <<>>
          /\ pc' = IF remoteManifest = <<>> THEN "u_version" ELSE "u_fetch"
          /\ result' = "none"]_vars

C20_Witness ==
  /\ op.kind = "update" /\ pc = "u_version"
  /\ target0.manifest = None /\ target0.files[PathA] # NoFile
  /\ changed = <<PathB, PathA>> /\ unchanged = <<>>
  /\ fetched = {PathA, PathB}

\* A line without the blanks and newlines at its two ends.
Trimmed(l) ==
  LET ks == {k \in 1..Len(l) : l[k] \notin Whitespace} IN
  IF ks = {} THEN <<>>
  ELSE SubSeq(l, CHOOSE k \in ks : \A j \in ks : k <= j,
                 CHOOSE k \in ks : \A j \in ks : j <= k)

FirstColon(l) == CHOOSE k \in 1..Len(l) : l[k] = ":" /\ \A j \in 1..(k - 1) : l[j] # ":"

\* The lines that count as entries, and the path and digest each one gives.
IsEntry(l) ==
  LET t == Trimmed(l) IN
  t # <<>> /\ t[1] # "#" /\ \E k \in 1..Len(t) : t[k] = ":"
EntryPath(l) == SubSeq(Trimmed(l), 1, FirstColon(Trimmed(l)) - 1)
EntryHash(l) == SubSeq(Trimmed(l), FirstColon(Trimmed(l)) + 1, Len(Trimmed(l)))

\* files holds one entry per path of the entry lines, each with the digest
\* of the last line for its path.
ParsedFrom(files, lines) ==
  LET E == {i \in 1..Len(lines) : IsEntry(lines[i])} IN
  /\ PathsOf(files) = {EntryPath(lines[i]) : i \in E}
  /\ Len(files) = Cardinality(PathsOf(files))
  /\ \A n \in 1..Len(files) :
       \E i \in E :
         /\ EntryPath(lines[i]) = files[n].path
         /\ EntryHash(lines[i]) = files[n].hash
         /\ \A j \in E : EntryPath(lines[j]) = files[n].path => j <= i

\* C21: parsing any text into an empty Manifest succeeds and gives one entry
\* per distinct path of the lines that, trimmed, are not empty, do not start
\* with "#" and hold a ":", split at the first ":", a later line for a path
\* replacing an earlier one; lines without ":" are skipped.
C21_ParseTolerant ==
  (fnOut # None /\ fnIn[1].fn = "parse")
    => /\ fnOut[1].ok
       /\ ParsedFrom(fnOut[1].from_content, fnIn[1].lines)
       /\ ParsedFrom(fnOut[1].from_file, fnIn[1].lines)

C21_Witness ==
  /\ fnOut # None /\ fnIn[1].fn = "parse"
  /\ fnIn[1].lines = << <<"a", ":", "1">>, <<"a">>, <<"a", ":", "b", ":", "1">> >>
  /\ fnOut[1].from_content = <<Entry(PathA, <<"b", ":", "1">>)>>
  /\ fnOut[1].from_file = fnOut[1].from_content

\* The place of path p in manifest m, in the order its entries were read.
PlaceIn(m, p) == CHOOSE i \in 1..Len(m) : m[i].path = p

\* The paths of list appear in it in the order manifest m read them.
InReadOrder(list, m) ==
  \A i, j \in 1..Len(list) : i < j => PlaceIn(m, list[i]) < PlaceIn(m, list[j])

\* C22: the changed list and the unchanged list that compare_with returns
\* each hold their paths in the order the remote manifest read them.
C22_DiffInRemoteOrder ==
  (fnOut # None /\ fnIn[1].fn = "compare_with")
    => /\ InReadOrder(fnOut[1].changed, fnIn[1].remote)
       /\ InReadOrder(fnOut[1].unchanged, fnIn[1].remote)

C22_Witness ==
  /\ fnOut # None /\ fnIn[1].fn = "compare_with"
  /\ fnIn[1].remote = <<Entry(PathB, <<"1">>), Entry(PathA, <<"2">>)>>
  /\ fnIn[1].local = <<Entry(PathA, <<"1">>), Entry(PathB, <<"2">>)>>
  /\ fnOut[1].changed = <<PathB, PathA>>

\* C23: a diff preview that fails in an update without force is a warning
\* and nothing more: the step after the preview is the confirmation, the user
\* is asked, and on a yes the apply step follows.
C23_PreviewFailureIsWarning ==
  [][/\ (pc = "u_preview" /\ pc' # pc)
          => (pc' = "u_confirm" /\ result' = "none" /\ staging' = staging)
     /\ (pc = "u_confirm" /\ warned /\ pc' # pc)
          => /\ prompted'
             /\ pc' \in {"u_apply_version", "done"}
             /\ pc' = "done" => cause' \in {"declined", "interrupt"}
     /\ (warned' /\ pc' = "done") => (prompted' /\ cause' # "diff_failed")]_vars

C23_Witness ==
  /\ pc = "done" /\ op.kind = "update" /\ ~op.force /\ result = "true"
  /\ warned /\ prompted /\ preview = "changes"
  /\ fetched # {} /\ target # target0

\* C24: a successful update never leaves in the target a marker that names
\* another remote snapshot than the one its FILES.txt was taken from: when the
\* marker written is the one of the remote's present commit, the manifest
\* written is that commit's manifest.
C24_MarkerAndManifestSameSnapshot ==
  (pc = "done" /\ op.kind = "update" /\ result = "true"
     /\ target.version = Some(Marker(remote.commit)))
    => ManifestOfTree(target) = load_from_content(<<>>, remote.manifest)

\* C25: the install command run where an installed tree exists, up to date,
\* outdated or without marker, never starts Installer.install and never
\* writes to the target; unless the user interrupts it, it returns 0.
C25_InstallCommandKeepsExistingTree ==
  (op.kind = "install" /\ op.cli /\ target0.exists)
    => /\ target = target0
       /\ pc \in {"cmd_install", "done"}
       /\ ~staging.exists
       /\ pc = "done" => \/ exitCode = Some(ExitSuccess) /\ result = "none"
                         \/ exitCode = Some(ExitCancelled) /\ cause = "interrupt"

C25_Witness ==
  /\ op.kind = "install" /\ op.cli /\ pc = "done"
  /\ target0.exists /\ cause = "outdated" /\ remote.commit = 2
  /\ exitCode = Some(ExitSuccess) /\ target = target0

\* C26: in an update without force whose changed list is empty the preview
\* says that only the version metadata changes and runs no diff; the preview
\* of changes to be applied is shown only when a changed payload file was
\* staged.
C26_EmptyChangeSetPreview ==
  (op.kind = "update" /\ ~op.force /\ preview # "none")
    => /\ changed = <<>> => (preview = "metadata_only" /\ ~warned)
       /\ preview = "changes" => fetched # {}

====
